---- MODULE Spec2Model ----
(***************************************************************************)
(* A model of mmap-rs: the POSIX backend (os_impl/unix.rs), the Windows    *)
(* backend (os_impl/windows.rs) and the Linux memory-map reader            *)
(* (os_impl/linux.rs).                                                     *)
(*                                                                         *)
(* Spec      : one builder (MmapOptions) and the Mmap it creates, against  *)
(*             an operating system whose calls may succeed or fail.        *)
(* SpecAreas : the MemoryAreas iterator over a listing of text lines.      *)
(* SpecLine  : the same iterator over one line written from its fields.    *)
(* SpecFlags : the POSIX flag translator applied to any builder.           *)
(***************************************************************************)
EXTENDS Integers, Sequences, FiniteSets, TLC

VARIABLES
    target,     \* the target_os the crate is built for (cfg)
    phase,      \* "building" | "live" | "failed" | "dropped"
    opts,       \* the MmapOptions under construction (None once a creation call consumed it)
    mmap,       \* Option<Mmap>: the Mapping returned by a successful creation
    region,     \* Option<[ptr, prot]>: the region the OS has mapped, with its protection
    mem,        \* the byte stored in the region
    lastOp,     \* the operation that ran last
    arg,        \* Option: the byte range it was called with (flush, flush_async)
    result,     \* what it returned to the caller
    value,      \* Option: the field of the Mapping an accessor returned
    lastCalls,  \* the OS calls it issued, in order
    releases,   \* number of OS release calls issued for the Mapping
    repeated,   \* the last call repeated the protection transition that succeeded just before it
    src,        \* Option: the fields the one line of the listing was written from
    listing,    \* the memory-map listing: a sequence of lines (or I/O errors)
    lines,      \* MemoryAreas.lines: the lines not read yet
    lastLine,   \* Option: the line the last next() read
    lastItem,   \* the Option<Result<MemoryArea, Error>> the last next() returned
    yielded,    \* the items the consumer has received, in order
    ended       \* the consumer has seen next() return None

mapVars  == <<target, phase, opts, mmap, region, mem, lastOp, arg, result, lastCalls, releases,
              repeated, value>>
areaVars == <<src, listing, lines, lastLine, lastItem, yielded, ended>>
vars     == <<target, phase, opts, mmap, region, mem, lastOp, arg, result, lastCalls, releases,
              repeated, value, src, listing, lines, lastLine, lastItem, yielded, ended>>

(***************************************************************************)
(* Bounds of the model.                                                    *)
(***************************************************************************)
MaxSize == 2
MaxLines == 3

None    == <<>>
Some(x) == <<x>>

Null == 0
Ptrs == {1}

UnixTargets == {"linux", "freebsd", "macos", "netbsd"}
Targets     == UnixTargets \cup {"windows"}
IsWindows   == target = "windows"

\* The option values the builder is configured with.
SafeFlagSets   == {{}, {"COPY_ON_WRITE"}, {"HUGE_PAGES"}, {"LOCKED"}, {"NO_CORE_DUMP"},
                   {"LOCKED", "NO_CORE_DUMP"}, {"COPY_ON_WRITE", "HUGE_PAGES"}}
UnsafeFlagSets == SUBSET {"MAP_FIXED", "JIT"}
PageSizes      == {"_2M"}
AddressHints   == {1}
Sizes          == 1..MaxSize
TheFile        == [fd |-> 3, offset |-> 0]

(***************************************************************************)
(* The operating system.                                                   *)
(***************************************************************************)
\* One OS call as the log keeps it.  len is the mathematical value of the
\* usize passed; a negative len stands for the wrapped value 2^64 + len.
Call(fn, ptr, len, prot, flags) ==
    [fn |-> fn, ptr |-> ptr, len |-> len, prot |-> prot, flags |-> flags]

PROT_NONE == {}
PROT_R    == {"PROT_READ"}
PROT_RX   == {"PROT_READ", "PROT_EXEC"}
PROT_RW   == {"PROT_READ", "PROT_WRITE"}
PROT_RWX  == {"PROT_READ", "PROT_WRITE", "PROT_EXEC"}

PAGE_NOACCESS          == {"PAGE_NOACCESS"}
PAGE_READONLY          == {"PAGE_READONLY"}
PAGE_READWRITE         == {"PAGE_READWRITE"}
PAGE_WRITECOPY         == {"PAGE_WRITECOPY"}
PAGE_EXECUTE_READ      == {"PAGE_EXECUTE_READ"}
PAGE_EXECUTE_READWRITE == {"PAGE_EXECUTE_READWRITE"}
PAGE_EXECUTE_WRITECOPY == {"PAGE_EXECUTE_WRITECOPY"}
PageProtections ==
    {PAGE_NOACCESS, PAGE_READONLY, PAGE_READWRITE, PAGE_WRITECOPY,
     PAGE_EXECUTE_READ, PAGE_EXECUTE_READWRITE, PAGE_EXECUTE_WRITECOPY}

\* What a native protection value lets the process do with the pages.
Readable(p) ==
    \/ "PROT_READ" \in p
    \/ p \cap {"PAGE_READONLY", "PAGE_READWRITE", "PAGE_WRITECOPY", "PAGE_EXECUTE_READ",
               "PAGE_EXECUTE_READWRITE", "PAGE_EXECUTE_WRITECOPY"} # {}
Writable(p) ==
    \/ "PROT_WRITE" \in p
    \/ p \cap {"PAGE_READWRITE", "PAGE_WRITECOPY",
               "PAGE_EXECUTE_READWRITE", "PAGE_EXECUTE_WRITECOPY"} # {}
Executable(p) ==
    \/ "PROT_EXEC" \in p
    \/ p \cap {"PAGE_EXECUTE_READ", "PAGE_EXECUTE_READWRITE", "PAGE_EXECUTE_WRITECOPY"} # {}

self == mmap[1]


(***************************************************************************)
(* POSIX backend: the builder (unix.rs, MmapOptions).                      *)
(***************************************************************************)
unix_new(size) ==
    [address |-> None, file |-> None, size |-> size, flags |-> {},
     unsafe_flags |-> {}, page_size |-> None]

\* The builder setters leave everything but the builder alone.
BuilderFrame(op) ==
    /\ lastOp' = op
    /\ arg' = None
    /\ repeated' = FALSE
    /\ value' = None
    /\ UNCHANGED <<target, phase, mmap, region, mem, result, lastCalls, releases>>
    /\ UNCHANGED areaVars

unix_with_address ==
    /\ ~IsWindows /\ phase = "building"
    /\ \E address \in AddressHints : opts' = [opts EXCEPT !.address = Some(address)]
    /\ BuilderFrame("with_address")

unix_with_file ==
    /\ ~IsWindows /\ phase = "building"
    /\ opts' = [opts EXCEPT !.file = Some(TheFile)]
    /\ BuilderFrame("with_file")

unix_with_flags ==
    /\ ~IsWindows /\ phase = "building"
    /\ \E flags \in SafeFlagSets : opts' = [opts EXCEPT !.flags = flags]
    /\ BuilderFrame("with_flags")

unix_with_unsafe_flags ==
    /\ ~IsWindows /\ phase = "building"
    /\ \E flags \in UnsafeFlagSets : opts' = [opts EXCEPT !.unsafe_flags = flags]
    /\ BuilderFrame("with_unsafe_flags")

unix_with_page_size ==
    /\ ~IsWindows /\ phase = "building"
    /\ \E page_size \in PageSizes : opts' = [opts EXCEPT !.page_size = Some(page_size)]
    /\ BuilderFrame("with_page_size")

\* The MAP_HUGE_* size-class flag of a PageSize.
unix_huge_flag(page_size) ==
    CASE page_size = "_64K"  -> {"MAP_HUGE_64KB"}
      [] page_size = "_512K" -> {"MAP_HUGE_512KB"}
      [] page_size = "_1M"   -> {"MAP_HUGE_1MB"}
      [] page_size = "_2M"   -> {"MAP_HUGE_2MB"}
      [] page_size = "_8M"   -> {"MAP_HUGE_8MB"}
      [] page_size = "_16M"  -> {"MAP_HUGE_16MB"}
      [] page_size = "_32M"  -> {"MAP_HUGE_32MB"}
      [] page_size = "_256M" -> {"MAP_HUGE_256MB"}
      [] page_size = "_512M" -> {"MAP_HUGE_512MB"}
      [] page_size = "_1G"   -> {"MAP_HUGE_1GB"}
      [] page_size = "_2G"   -> {"MAP_HUGE_2GB"}
      [] page_size = "_16G"  -> {"MAP_HUGE_16GB"}
      [] OTHER               -> {}

\* A translator that adds the private flag to the shared one instead of
\* choosing between them.
unix_flags_shared_always(o, t) ==
    (IF o.file = None THEN {"MAP_ANONYMOUS"} ELSE {})
        \cup {"MAP_SHARED"}
        \cup (IF "COPY_ON_WRITE" \in o.flags THEN {"MAP_PRIVATE"} ELSE {})
        \cup (IF "MAP_FIXED" \in o.unsafe_flags THEN {"MAP_FIXED"} ELSE {})

\* MmapOptions::flags: the native MapFlags of a builder o built for target_os t.
unix_flags(o, t) ==
    LET on(cond, fl) == IF cond THEN fl ELSE {}
        linuxish     == t \in {"android", "linux"}
    IN  on(o.file = None, {"MAP_ANONYMOUS"})
        \cup (IF "COPY_ON_WRITE" \in o.flags THEN {"MAP_PRIVATE"} ELSE {"MAP_SHARED"})
        \cup on(linuxish /\ "POPULATE" \in o.flags, {"MAP_POPULATE"})
        \cup on(t \notin {"dragonfly", "freebsd"} /\ "NO_RESERVE" \in o.flags,
                {"MAP_NORESERVE"})
        \cup on(linuxish /\ "HUGE_PAGES" \in o.flags, {"MAP_HUGETLB"})
        \cup on(linuxish /\ o.page_size # None,
                {"MAP_HUGETLB"} \cup (IF o.page_size # None
                                      THEN unix_huge_flag(o.page_size[1]) ELSE {}))
        \cup on(t = "freebsd" /\ "HUGE_PAGES" \in o.flags, {"MAP_ALIGNED_SUPER"})
        \cup on(linuxish /\ "LOCKED" \in o.flags, {"MAP_LOCKED"})
        \cup on(t = "netbsd" /\ "LOCKED" \in o.flags, {"MAP_WIRED"})
        \cup on(t \in {"android", "dragonfly", "freebsd", "linux", "openbsd"}
                  /\ "STACK" \in o.flags, {"MAP_STACK"})
        \cup on(t = "openbsd" /\ "NO_CORE_DUMP" \in o.flags, {"MAP_CONCEAL"})
        \cup on("MAP_FIXED" \in o.unsafe_flags, {"MAP_FIXED"})
        \cup on(t \in {"ios", "macos"} /\ "JIT" \in o.unsafe_flags, {"MAP_JIT"})

\* What every terminal creation call leaves alone.
CreateFrame ==
    /\ opts' = None
    /\ arg' = None
    /\ repeated' = FALSE
    /\ value' = None
    /\ UNCHANGED <<target, mem, releases>>
    /\ UNCHANGED areaVars

\* The steps after mmap: the advice and the lock the target and the flags ask for.
unix_do_map_madvise ==
    IF target \in {"android", "linux"} /\ "NO_CORE_DUMP" \in opts.flags
    THEN <<"MADV_DONTDUMP">>
    ELSE IF target \in {"dragonfly", "freebsd"} /\ "NO_CORE_DUMP" \in opts.flags
    THEN <<"MADV_NOCORE">>
    ELSE <<>>

unix_do_map_mlock ==
    target \notin {"android", "linux", "netbsd"} /\ "LOCKED" \in opts.flags

\* MmapOptions::do_map.  ptr is what mmap returns (Null: it failed); advOk and
\* lockOk are the outcomes of madvise and mlock where they are called.
unix_do_map(protect) ==
    \E ptr \in Ptrs \cup {Null}, advOk \in BOOLEAN, lockOk \in BOOLEAN :
        \* an outcome is chosen only for a call that is made
        /\ (ptr = Null \/ unix_do_map_madvise = <<>>) => advOk
        /\ (ptr = Null \/ ~advOk \/ ~unix_do_map_mlock) => lockOk
        /\ LET size     == opts.size
               cMmap    == <<Call("mmap", IF opts.address = None THEN Null ELSE opts.address[1],
                                  size, protect, unix_flags(opts, target))>>
               adv      == unix_do_map_madvise
               cAdv     == IF adv = <<>> THEN <<>>
                           ELSE <<Call("madvise", ptr, size, {}, {adv[1]})>>
               advFail  == adv # <<>> /\ ~advOk
               cLock    == IF unix_do_map_mlock THEN <<Call("mlock", ptr, size, {}, {})>> ELSE <<>>
               lockFail == unix_do_map_mlock /\ ~lockOk
               flags    == IF "JIT" \in opts.unsafe_flags THEN {"JIT"} ELSE {}
           IN  IF ptr = Null
               THEN /\ lastCalls' = cMmap
                    /\ result' = "Nix"
                    /\ phase' = "failed"
                    /\ UNCHANGED <<mmap, region>>
               ELSE IF advFail
               THEN /\ lastCalls' = cMmap \o cAdv
                    /\ result' = "Nix"
                    /\ phase' = "failed"
                    /\ region' = Some([ptr |-> ptr, prot |-> protect])
                    /\ UNCHANGED mmap
               ELSE IF lockFail
               THEN /\ lastCalls' = cMmap \o cAdv \o cLock
                    /\ result' = "Nix"
                    /\ phase' = "failed"
                    /\ region' = Some([ptr |-> ptr, prot |-> protect])
                    /\ UNCHANGED mmap
               ELSE /\ lastCalls' = cMmap \o cAdv \o cLock
                    /\ result' = "Ok"
                    /\ phase' = "live"
                    /\ region' = Some([ptr |-> ptr, prot |-> protect])
                    /\ mmap' = Some([file  |-> IF opts.file = None THEN None ELSE Some(opts.file[1].fd),
                                     ptr   |-> ptr,
                                     size  |-> size,
                                     flags |-> flags])

unix_map_none ==
    /\ ~IsWindows /\ phase = "building"
    /\ lastOp' = "map_none"
    /\ unix_do_map(PROT_NONE)
    /\ CreateFrame

unix_map ==
    /\ ~IsWindows /\ phase = "building"
    /\ lastOp' = "map"
    /\ unix_do_map(PROT_R)
    /\ CreateFrame

unix_map_exec ==
    /\ ~IsWindows /\ phase = "building"
    /\ lastOp' = "map_exec"
    /\ unix_do_map(PROT_RX)
    /\ CreateFrame

unix_map_mut ==
    /\ ~IsWindows /\ phase = "building"
    /\ lastOp' = "map_mut"
    /\ unix_do_map(PROT_RW)
    /\ CreateFrame

\* A gate that tests the wrong unsafe flag.
unix_map_exec_mut_gate_fixed(o) == "MAP_FIXED" \notin o.unsafe_flags

\* The JIT gate of map_exec_mut.
unix_map_exec_mut_gate(o) == "JIT" \notin o.unsafe_flags

unix_map_exec_mut ==
    /\ ~IsWindows /\ phase = "building"
    /\ lastOp' = "map_exec_mut"
    /\ IF unix_map_exec_mut_gate(opts)
       THEN /\ result' = "UnsafeFlagNeeded(JIT)"
            /\ lastCalls' = <<>>
            /\ phase' = "failed"
            /\ UNCHANGED <<mmap, region>>
       ELSE unix_do_map(PROT_RWX)
    /\ CreateFrame

(***************************************************************************)
(* POSIX backend: the Mapping (unix.rs, Mmap).                             *)
(***************************************************************************)
\* The five protection transitions of a Mapping.
Transitions == {"make_none", "make_read_only", "make_exec", "make_mut", "make_exec_mut"}

\* A frame in which an operation of the Mapping lets go of its file.
LiveFrame_forgets_file ==
    /\ arg' = None
    /\ repeated' = (lastOp' \in Transitions /\ lastOp' = lastOp /\ result = "Ok")
    /\ value' = None
    /\ mmap' = Some([self EXCEPT !.file = None])
    /\ UNCHANGED <<target, phase, opts, mem, releases>>
    /\ UNCHANGED areaVars

\* What the operations of a live Mapping leave alone.
LiveFrame ==
    /\ arg' = None
    /\ repeated' = (lastOp' \in Transitions /\ lastOp' = lastOp /\ result = "Ok")
    /\ value' = None
    /\ UNCHANGED <<target, phase, opts, mmap, mem, releases>>
    /\ UNCHANGED areaVars

\* The same for flush and flush_async, called with range.
FlushFrame(range) ==
    /\ arg' = Some(range)
    /\ repeated' = FALSE
    /\ value' = None
    /\ UNCHANGED <<target, phase, opts, mmap, mem, releases>>
    /\ UNCHANGED areaVars

\* One OS call on the Mapping that changes nothing the model tracks.
OsCall(call, err) ==
    \E ok \in BOOLEAN :
        /\ lastCalls' = <<call>>
        /\ result' = IF ok THEN "Ok" ELSE err
        /\ UNCHANGED region

\* The byte ranges flush and flush_async are called with: both ends inside
\* the Mapping, in either order.
Ranges(size) == [start : 0..size, end : 0..size]

\* usize subtraction a - b.  With overflow checks the build panics when b > a;
\* without them the result wraps, and the negative value is the wrapped one.
usize_sub(a, b, overflow_checks) ==
    [panic |-> overflow_checks /\ a < b, val |-> a - b]

\* What an accessor does: it returns the field v and touches nothing.
AccessorFrame(v) ==
    /\ value' = Some(v)
    /\ result' = "Value"
    /\ lastCalls' = <<>>
    /\ arg' = None
    /\ repeated' = FALSE
    /\ UNCHANGED <<target, phase, opts, mmap, region, mem, releases>>
    /\ UNCHANGED areaVars

unix_file ==
    /\ ~IsWindows /\ phase = "live"
    /\ lastOp' = "file"
    /\ AccessorFrame(self.file)

unix_as_ptr ==
    /\ ~IsWindows /\ phase = "live"
    /\ lastOp' = "as_ptr"
    /\ AccessorFrame(self.ptr)

unix_as_mut_ptr ==
    /\ ~IsWindows /\ phase = "live"
    /\ lastOp' = "as_mut_ptr"
    /\ AccessorFrame(self.ptr)

unix_size ==
    /\ ~IsWindows /\ phase = "live"
    /\ lastOp' = "size"
    /\ AccessorFrame(self.size)

unix_lock ==
    /\ ~IsWindows /\ phase = "live"
    /\ lastOp' = "lock"
    /\ OsCall(Call("mlock", self.ptr, self.size, {}, {}), "Nix")
    /\ LiveFrame

unix_unlock ==
    /\ ~IsWindows /\ phase = "live"
    /\ lastOp' = "unlock"
    /\ OsCall(Call("munlock", self.ptr, self.size, {}, {}), "Nix")
    /\ LiveFrame

\* msync over range, as flush and flush_async issue it.
unix_msync(range, ms_flags) ==
    \E overflow_checks \in BOOLEAN :
        /\ range.start <= range.end => overflow_checks    \* the builds differ on underflow only
        /\ LET len == usize_sub(range.end, range.start, overflow_checks)
           IN  IF len.panic
               THEN /\ lastCalls' = <<>>
                    /\ result' = "Panic"
                    /\ UNCHANGED region
               ELSE OsCall(Call("msync", self.ptr + range.start, len.val, {}, {ms_flags}), "Nix")

unix_flush ==
    /\ ~IsWindows /\ phase = "live"
    /\ lastOp' = "flush"
    /\ \E range \in Ranges(self.size) : unix_msync(range, "MS_SYNC") /\ FlushFrame(range)

unix_flush_async ==
    /\ ~IsWindows /\ phase = "live"
    /\ lastOp' = "flush_async"
    /\ \E range \in Ranges(self.size) : unix_msync(range, "MS_ASYNC") /\ FlushFrame(range)

unix_flush_icache ==
    /\ ~IsWindows /\ phase = "live"
    /\ lastOp' = "flush_icache"
    /\ lastCalls' = <<Call(IF target = "ios" THEN "sys_icache_invalidate" ELSE "__clear_cache",
                           self.ptr, self.size, {}, {})>>
    /\ result' = "Ok"
    /\ UNCHANGED region
    /\ LiveFrame

\* A do_make that refuses a protection the region already has.
unix_do_make_once(protect) ==
    \E ok \in BOOLEAN :
        LET same == region # None /\ region[1].prot = protect
        IN  /\ lastCalls' = IF same THEN <<>>
                            ELSE <<Call("mprotect", self.ptr, self.size, protect, {})>>
            /\ result' = IF ok /\ ~same THEN "Ok" ELSE "Nix"
            /\ region' = IF ok /\ ~same /\ region # None
                         THEN Some([region[1] EXCEPT !.prot = protect])
                         ELSE region

\* Mmap::do_make: one mprotect over the whole Mapping.
unix_do_make(protect) ==
    \E ok \in BOOLEAN :
        /\ lastCalls' = <<Call("mprotect", self.ptr, self.size, protect, {})>>
        /\ result' = IF ok THEN "Ok" ELSE "Nix"
        /\ region' = IF ok /\ region # None
                     THEN Some([region[1] EXCEPT !.prot = protect])
                     ELSE region

unix_make_none ==
    /\ ~IsWindows /\ phase = "live"
    /\ lastOp' = "make_none"
    /\ unix_do_make(PROT_NONE)
    /\ LiveFrame

unix_make_read_only ==
    /\ ~IsWindows /\ phase = "live"
    /\ lastOp' = "make_read_only"
    /\ unix_do_make(PROT_R)
    /\ LiveFrame

unix_make_exec ==
    /\ ~IsWindows /\ phase = "live"
    /\ lastOp' = "make_exec"
    /\ unix_do_make(PROT_RX)
    /\ LiveFrame

unix_make_mut ==
    /\ ~IsWindows /\ phase = "live"
    /\ lastOp' = "make_mut"
    /\ unix_do_make(PROT_RW)
    /\ LiveFrame

\* The JIT gate of make_exec_mut.
unix_make_exec_mut_gate(m) == "JIT" \notin m.flags

unix_make_exec_mut ==
    /\ ~IsWindows /\ phase = "live"
    /\ lastOp' = "make_exec_mut"
    /\ IF unix_make_exec_mut_gate(self)
       THEN /\ result' = "UnsafeFlagNeeded(JIT)"
            /\ lastCalls' = <<>>
            /\ UNCHANGED region
       ELSE unix_do_make(PROT_RWX)
    /\ LiveFrame

\* What Drop does with the Mapping: the release call, whose failure is dropped.
unix_drop_body ==
    \E ok \in BOOLEAN :
        /\ lastCalls' = <<Call("munmap", self.ptr, self.size, {}, {})>>
        /\ releases' = releases + 1
        /\ region' = IF ok THEN None ELSE region
        /\ result' = "Unit"
        /\ phase' = "dropped"

unix_drop ==
    /\ ~IsWindows /\ phase = "live"
    /\ lastOp' = "drop"
    /\ unix_drop_body
    /\ arg' = None
    /\ repeated' = FALSE
    /\ value' = None
    /\ UNCHANGED <<target, opts, mmap, mem>>
    /\ UNCHANGED areaVars

(***************************************************************************)
(* The caller's use of the raw pointer (as_ptr, as_mut_ptr): the OS        *)
(* enforces the protection of the region at each access.                   *)
(***************************************************************************)
Bytes == {0, 1}

store ==
    /\ phase = "live" /\ region # None
    /\ lastOp' = "store"
    /\ arg' = None
    /\ lastCalls' = <<>>
    /\ \E b \in Bytes :
          IF Writable(region[1].prot)
          THEN mem' = b /\ result' = "Ok"
          ELSE mem' = mem /\ result' = "Fault"
    /\ repeated' = FALSE
    /\ value' = None
    /\ UNCHANGED <<target, phase, opts, mmap, region, releases>>
    /\ UNCHANGED areaVars

load ==
    /\ phase = "live" /\ region # None
    /\ lastOp' = "load"
    /\ arg' = None
    /\ lastCalls' = <<>>
    /\ result' = IF Readable(region[1].prot) THEN "Ok" ELSE "Fault"
    /\ repeated' = FALSE
    /\ value' = None
    /\ UNCHANGED <<target, phase, opts, mmap, region, mem, releases>>
    /\ UNCHANGED areaVars

(***************************************************************************)
(* Windows backend: the builder (windows.rs, MmapOptions).                 *)
(***************************************************************************)
windows_new ==
    [address |-> None, file |-> None, size |-> 0, flags |-> {},
     unsafe_flags |-> {}, page_size |-> None]

windows_with_address ==
    /\ IsWindows /\ phase = "building"
    /\ \E address \in {None} \cup {Some(a) : a \in AddressHints} :
          opts' = [opts EXCEPT !.address = address]
    /\ BuilderFrame("with_address")

windows_with_file ==
    /\ IsWindows /\ phase = "building"
    /\ \E file \in {None, Some(TheFile)} : opts' = [opts EXCEPT !.file = file]
    /\ BuilderFrame("with_file")

windows_with_size ==
    /\ IsWindows /\ phase = "building"
    /\ \E size \in Sizes : opts' = [opts EXCEPT !.size = size]
    /\ BuilderFrame("with_size")

windows_with_flags ==
    /\ IsWindows /\ phase = "building"
    /\ \E flags \in SafeFlagSets : opts' = [opts EXCEPT !.flags = flags]
    /\ BuilderFrame("with_flags")

windows_with_unsafe_flags ==
    /\ IsWindows /\ phase = "building"
    /\ \E flags \in UnsafeFlagSets : opts' = [opts EXCEPT !.unsafe_flags = flags]
    /\ BuilderFrame("with_unsafe_flags")

windows_with_page_size ==
    /\ IsWindows /\ phase = "building"
    /\ \E page_size \in {None} \cup {Some(ps) : ps \in PageSizes} :
          opts' = [opts EXCEPT !.page_size = page_size]
    /\ BuilderFrame("with_page_size")

\* A probe that answers true whether or not the OS created the object.
windows_check_protection_optimistic(o, protection, ok) ==
    IF o.file = None
    THEN [res |-> FALSE, calls |-> <<>>]
    ELSE IF ~ok
    THEN [res |-> TRUE,
          calls |-> <<Call("CreateFileMappingW", Null, 0, protection, {"probe", "invalid"})>>]
    ELSE [res |-> TRUE,
          calls |-> <<Call("CreateFileMappingW", Null, 0, protection, {"probe"}),
                      Call("CloseHandle", Null, 0, {}, {"probe"})>>]

\* MmapOptions::check_protection: a throwaway file-mapping object at protection.
\* ok is whether the OS creates it.  The answer and the OS calls issued.
windows_check_protection(o, protection, ok) ==
    IF o.file = None
    THEN [res |-> FALSE, calls |-> <<>>]
    ELSE IF ~ok
    THEN [res |-> FALSE,
          calls |-> <<Call("CreateFileMappingW", Null, 0, protection, {"probe", "invalid"})>>]
    ELSE [res |-> TRUE,
          calls |-> <<Call("CreateFileMappingW", Null, 0, protection, {"probe"}),
                      Call("CloseHandle", Null, 0, {}, {"probe"})>>]

\* The protection and the view access of the real file mapping, from the probes.
windows_map_protection(write, execute) ==
    IF write /\ execute THEN PAGE_EXECUTE_READWRITE
    ELSE IF write       THEN PAGE_READWRITE
    ELSE IF execute     THEN PAGE_EXECUTE_READ
    ELSE PAGE_READONLY

windows_map_access(write, execute) ==
    {"FILE_MAP_READ"}
        \cup (IF write THEN {"FILE_MAP_WRITE"} ELSE {})
        \cup (IF execute THEN {"FILE_MAP_EXECUTE"} ELSE {})

\* The derived flag record of the Mapping.
windows_mmap_flags(o) ==
    (IF "COPY_ON_WRITE" \in o.flags THEN {"COPY_ON_WRITE"} ELSE {})
        \cup (IF "JIT" \in o.unsafe_flags THEN {"JIT"} ELSE {})

\* MmapOptions::do_map.  wOk and xOk are the outcomes of the two probes, cOk of
\* the real CreateFileMappingW, view what MapViewOfFileEx returns on a valid
\* handle, pOk the outcome of VirtualProtect on a mapped view, alloc what
\* VirtualAlloc returns.
windows_do_map(protection) ==
    \E wOk \in BOOLEAN, xOk \in BOOLEAN, cOk \in BOOLEAN, pOk \in BOOLEAN,
       view \in Ptrs \cup {Null}, alloc \in Ptrs \cup {Null} :
        \* an outcome is chosen only for a call that is made
        /\ opts.file = None => (wOk /\ xOk /\ cOk /\ pOk /\ view = Null)
        /\ opts.file # None => alloc = Null
        /\ opts.size = 0 => alloc = Null    \* VirtualAlloc refuses a size of 0
        /\ ~cOk => view = Null
        /\ view = Null => pOk
        /\ LET write   == windows_check_protection(opts, PAGE_READWRITE, wOk)
               execute == windows_check_protection(opts, PAGE_EXECUTE_READ, xOk)
               huge    == "HUGE_PAGES" \in opts.flags
               size    == opts.size
               map_access     == windows_map_access(write.res, execute.res)
                                   \cup (IF huge THEN {"FILE_MAP_LARGE_PAGES"} ELSE {})
               map_protection == windows_map_protection(write.res, execute.res)
                                   \cup (IF huge THEN {"SEC_LARGE_PAGES"} ELSE {})
               ptr     == IF opts.file # None
                          THEN (IF cOk THEN view ELSE Null)
                          ELSE alloc
               status  == ptr # Null /\ pOk
               fileCalls ==
                   <<Call("CreateFileMappingW", Null, size, map_protection,
                          IF cOk THEN {} ELSE {"invalid"}),
                     Call("MapViewOfFileEx", ptr, size, {}, map_access),
                     Call("CloseHandle", Null, 0, {}, IF cOk THEN {} ELSE {"invalid"}),
                     Call("VirtualProtect", ptr, size, protection, {})>>
               anonCalls ==
                   <<Call("VirtualAlloc", IF opts.address = None THEN Null ELSE opts.address[1],
                          size, protection,
                          {"MEM_COMMIT", "MEM_RESERVE"}
                              \cup (IF huge THEN {"MEM_LARGE_PAGES"} ELSE {}))>>
           IN  /\ lastCalls' = write.calls \o execute.calls
                                 \o (IF opts.file # None THEN fileCalls ELSE anonCalls)
               /\ IF opts.file # None /\ ~status
                  THEN /\ result' = "Io"
                       /\ phase' = "failed"
                       /\ region' = IF ptr = Null THEN None
                                    ELSE Some([ptr |-> ptr, prot |-> map_protection])
                       /\ UNCHANGED mmap
                  ELSE IF ptr = Null
                  THEN /\ result' = "Io"
                       /\ phase' = "failed"
                       /\ UNCHANGED <<mmap, region>>
                  ELSE /\ result' = "Ok"
                       /\ phase' = "live"
                       /\ region' = Some([ptr |-> ptr, prot |-> protection])
                       /\ mmap' = Some([file  |-> IF opts.file = None THEN None
                                                  ELSE Some(opts.file[1].fd),
                                        ptr   |-> ptr,
                                        size  |-> size,
                                        flags |-> windows_mmap_flags(opts)])

windows_map_none ==
    /\ IsWindows /\ phase = "building"
    /\ lastOp' = "map_none"
    /\ windows_do_map(PAGE_NOACCESS)
    /\ CreateFrame

windows_map ==
    /\ IsWindows /\ phase = "building"
    /\ lastOp' = "map"
    /\ windows_do_map(PAGE_READONLY)
    /\ CreateFrame

windows_map_exec ==
    /\ IsWindows /\ phase = "building"
    /\ lastOp' = "map_exec"
    /\ windows_do_map(PAGE_EXECUTE_READ)
    /\ CreateFrame

windows_map_mut ==
    /\ IsWindows /\ phase = "building"
    /\ lastOp' = "map_mut"
    /\ windows_do_map(IF "COPY_ON_WRITE" \in opts.flags THEN PAGE_WRITECOPY
                      ELSE PAGE_READWRITE)
    /\ CreateFrame

\* The JIT gate of map_exec_mut.
windows_map_exec_mut_gate(o) == "JIT" \notin o.unsafe_flags

windows_map_exec_mut ==
    /\ IsWindows /\ phase = "building"
    /\ lastOp' = "map_exec_mut"
    /\ IF windows_map_exec_mut_gate(opts)
       THEN /\ result' = "UnsafeFlagNeeded(JIT)"
            /\ lastCalls' = <<>>
            /\ phase' = "failed"
            /\ UNCHANGED <<mmap, region>>
       ELSE windows_do_map(IF "COPY_ON_WRITE" \in opts.flags THEN PAGE_EXECUTE_WRITECOPY
                           ELSE PAGE_EXECUTE_READWRITE)
    /\ CreateFrame

(***************************************************************************)
(* Windows backend: the Mapping (windows.rs, Mmap).                        *)
(***************************************************************************)
windows_file ==
    /\ IsWindows /\ phase = "live"
    /\ lastOp' = "file"
    /\ AccessorFrame(self.file)

windows_as_ptr ==
    /\ IsWindows /\ phase = "live"
    /\ lastOp' = "as_ptr"
    /\ AccessorFrame(self.ptr)

windows_as_mut_ptr ==
    /\ IsWindows /\ phase = "live"
    /\ lastOp' = "as_mut_ptr"
    /\ AccessorFrame(self.ptr)

windows_size ==
    /\ IsWindows /\ phase = "live"
    /\ lastOp' = "size"
    /\ AccessorFrame(self.size)

windows_lock ==
    /\ IsWindows /\ phase = "live"
    /\ lastOp' = "lock"
    /\ OsCall(Call("VirtualLock", self.ptr, self.size, {}, {}), "Io")
    /\ LiveFrame

windows_unlock ==
    /\ IsWindows /\ phase = "live"
    /\ lastOp' = "unlock"
    /\ OsCall(Call("VirtualUnlock", self.ptr, self.size, {}, {}), "Io")
    /\ LiveFrame

\* Mmap::flush_async on range; ok is the outcome of FlushViewOfFile.  The
\* result and the OS calls issued.
windows_flush_async_body(range, ok) ==
    IF range.end <= range.start
    THEN [res |-> "Ok", calls |-> <<>>]
    ELSE [res   |-> IF ok THEN "Ok" ELSE "Io",
          calls |-> <<Call("FlushViewOfFile", self.ptr + range.start,
                           usize_sub(range.end, range.start, FALSE).val, {}, {})>>]

windows_flush_async ==
    /\ IsWindows /\ phase = "live"
    /\ lastOp' = "flush_async"
    /\ \E range \in Ranges(self.size), ok \in BOOLEAN :
          /\ LET r == windows_flush_async_body(range, ok)
             IN  result' = r.res /\ lastCalls' = r.calls
          /\ FlushFrame(range)
    /\ UNCHANGED region

windows_flush ==
    /\ IsWindows /\ phase = "live"
    /\ lastOp' = "flush"
    /\ \E range \in Ranges(self.size), ok \in BOOLEAN, syncOk \in BOOLEAN :
          /\ LET r == windows_flush_async_body(range, ok)
             IN  IF r.res # "Ok"
                 THEN result' = r.res /\ lastCalls' = r.calls
                 ELSE IF self.file # None
                 THEN /\ result' = IF syncOk THEN "Ok" ELSE "Io"
                      /\ lastCalls' = r.calls \o <<Call("sync_data", Null, 0, {}, {})>>
                 ELSE result' = "Ok" /\ lastCalls' = r.calls
          /\ FlushFrame(range)
    /\ UNCHANGED region

\* Mmap::do_make: one VirtualProtect over the whole Mapping.
windows_do_make(protect) ==
    \E ok \in BOOLEAN :
        /\ lastCalls' = <<Call("VirtualProtect", self.ptr, self.size, protect, {})>>
        /\ result' = IF ok THEN "Ok" ELSE "Io"
        /\ region' = IF ok /\ region # None
                     THEN Some([region[1] EXCEPT !.prot = protect])
                     ELSE region

\* do_make is a public method of the Windows Mmap: a caller may pass any protection.
windows_pub_do_make ==
    /\ IsWindows /\ phase = "live"
    /\ lastOp' = "do_make"
    /\ \E protect \in PageProtections : windows_do_make(protect)
    /\ LiveFrame

windows_flush_icache ==
    /\ IsWindows /\ phase = "live"
    /\ lastOp' = "flush_icache"
    /\ \E arm \in BOOLEAN :
          lastCalls' = IF arm
                       THEN <<Call("FlushInstructionCache", self.ptr, self.size, {}, {})>>
                       ELSE <<>>
    /\ result' = "Ok"
    /\ UNCHANGED region
    /\ LiveFrame

windows_make_none ==
    /\ IsWindows /\ phase = "live"
    /\ lastOp' = "make_none"
    /\ windows_do_make(PAGE_NOACCESS)
    /\ LiveFrame

windows_make_read_only ==
    /\ IsWindows /\ phase = "live"
    /\ lastOp' = "make_read_only"
    /\ windows_do_make(PAGE_READWRITE)
    /\ LiveFrame

windows_make_exec ==
    /\ IsWindows /\ phase = "live"
    /\ lastOp' = "make_exec"
    /\ windows_do_make(PAGE_EXECUTE_READ)
    /\ LiveFrame

windows_make_mut ==
    /\ IsWindows /\ phase = "live"
    /\ lastOp' = "make_mut"
    /\ windows_do_make(IF "COPY_ON_WRITE" \in self.flags THEN PAGE_WRITECOPY
                       ELSE PAGE_READWRITE)
    /\ LiveFrame

\* A gate that tests the wrong flag of the Mapping.
windows_make_exec_mut_gate_cow(m) == "COPY_ON_WRITE" \notin m.flags

\* The JIT gate of make_exec_mut.
windows_make_exec_mut_gate(m) == "JIT" \notin m.flags

windows_make_exec_mut ==
    /\ IsWindows /\ phase = "live"
    /\ lastOp' = "make_exec_mut"
    /\ IF windows_make_exec_mut_gate(self)
       THEN /\ result' = "UnsafeFlagNeeded(JIT)"
            /\ lastCalls' = <<>>
            /\ UNCHANGED region
       ELSE windows_do_make(IF "COPY_ON_WRITE" \in self.flags THEN PAGE_EXECUTE_WRITECOPY
                            ELSE PAGE_EXECUTE_READWRITE)
    /\ LiveFrame

\* A Drop with the file test inverted.
windows_drop_body_inverted ==
    \E ok \in BOOLEAN :
        /\ lastCalls' = IF self.file = None
                        THEN <<Call("UnmapViewOfFile", self.ptr, 0, {}, {})>>
                        ELSE <<Call("VirtualFree", self.ptr, self.size, {},
                                    {"MEM_DECOMMIT", "MEM_RELEASE"})>>
        /\ releases' = releases + 1
        /\ region' = IF ok THEN None ELSE region
        /\ result' = "Unit"
        /\ phase' = "dropped"

\* What Drop does with the Mapping: the release call, whose failure is dropped.
windows_drop_body ==
    \E ok \in BOOLEAN :
        /\ lastCalls' = IF self.file # None
                        THEN <<Call("UnmapViewOfFile", self.ptr, 0, {}, {})>>
                        ELSE <<Call("VirtualFree", self.ptr, self.size, {},
                                    {"MEM_DECOMMIT", "MEM_RELEASE"})>>
        /\ releases' = releases + 1
        /\ region' = IF ok THEN None ELSE region
        /\ result' = "Unit"
        /\ phase' = "dropped"

windows_drop ==
    /\ IsWindows /\ phase = "live"
    /\ lastOp' = "drop"
    /\ windows_drop_body
    /\ arg' = None
    /\ repeated' = FALSE
    /\ value' = None
    /\ UNCHANGED <<target, opts, mmap, mem>>
    /\ UNCHANGED areaVars

(***************************************************************************)
(* The specification of the builder and its Mapping.                       *)
(***************************************************************************)
AreasIdle ==
    /\ src = None
    /\ listing = <<>>
    /\ lines = <<>>
    /\ lastLine = None
    /\ lastItem = None
    /\ yielded = <<>>
    /\ ended = FALSE

Init ==
    /\ target \in Targets
    /\ phase = "building"
    /\ opts \in IF target = "windows" THEN {windows_new}
                ELSE {unix_new(size) : size \in Sizes}
    /\ mmap = None
    /\ region = None
    /\ mem = 0
    /\ lastOp = "new"
    /\ arg = None
    /\ result = "Unit"
    /\ lastCalls = <<>>
    /\ releases = 0
    /\ repeated = FALSE
    /\ value = None
    /\ AreasIdle

Next ==
    \/ unix_with_address \/ unix_with_file \/ unix_with_flags
    \/ unix_with_unsafe_flags \/ unix_with_page_size
    \/ unix_map_none \/ unix_map \/ unix_map_exec \/ unix_map_mut \/ unix_map_exec_mut
    \/ unix_file \/ unix_as_ptr \/ unix_as_mut_ptr \/ unix_size
    \/ unix_lock \/ unix_unlock \/ unix_flush \/ unix_flush_async \/ unix_flush_icache
    \/ unix_make_none \/ unix_make_read_only \/ unix_make_exec \/ unix_make_mut
    \/ unix_make_exec_mut \/ unix_drop
    \/ windows_with_address \/ windows_with_file \/ windows_with_size \/ windows_with_flags
    \/ windows_with_unsafe_flags \/ windows_with_page_size
    \/ windows_map_none \/ windows_map \/ windows_map_exec \/ windows_map_mut
    \/ windows_map_exec_mut
    \/ windows_file \/ windows_as_ptr \/ windows_as_mut_ptr \/ windows_size
    \/ windows_lock \/ windows_unlock \/ windows_flush \/ windows_flush_async
    \/ windows_pub_do_make \/ windows_flush_icache
    \/ windows_make_none \/ windows_make_read_only \/ windows_make_exec \/ windows_make_mut
    \/ windows_make_exec_mut \/ windows_drop
    \/ store \/ load

Spec == Init /\ [][Next]_vars

(***************************************************************************)
(* The Linux memory-map reader (linux.rs).  A line is a sequence of        *)
(* one-character strings; a parser takes the input left and returns        *)
(* [ok, val, rest].                                                        *)
(***************************************************************************)
Fail == [ok |-> FALSE, val |-> <<>>, rest |-> <<>>]
Done(val, rest) == [ok |-> TRUE, val |-> val, rest |-> rest]

LowerHex == <<"0", "1", "2", "3", "4", "5", "6", "7", "8", "9", "a", "b", "c", "d", "e", "f">>
UpperHex == <<"0", "1", "2", "3", "4", "5", "6", "7", "8", "9", "A", "B", "C", "D", "E", "F">>
IsHexDigit(c) == \E i \in 1..Len(LowerHex) : c = LowerHex[i] \/ c = UpperHex[i]
HexVal(c) == (CHOOSE i \in 1..Len(LowerHex) : c = LowerHex[i] \/ c = UpperHex[i]) - 1
IsSpace(c) == c \in {" ", "\t", "\n", "\r"}

NotNewline(c) == c # "\n"

\* The character classes of the grammar.
InClass(class, c) ==
    CASE class = "hex_digit" -> IsHexDigit(c)
      [] class = "space"     -> IsSpace(c)
      [] class = "path"      -> NotNewline(c)

\* The length of the longest prefix of input, from position i on, whose
\* characters are in class.
RECURSIVE PrefixLen(_, _, _)
PrefixLen(input, class, i) ==
    IF i <= Len(input) /\ InClass(class, input[i]) THEN PrefixLen(input, class, i + 1)
    ELSE i - 1

Drop(input, n) == SubSeq(input, n + 1, Len(input))

\* hex_digit1: many1(hex_digit()).
hex_digit1(input) ==
    LET n == PrefixLen(input, "hex_digit", 1)
    IN  IF n = 0 THEN Fail ELSE Done(SubSeq(input, 1, n), Drop(input, n))

\* char::spaces: any number of whitespace characters, none included.
spaces(input) ==
    Done(<<>>, Drop(input, PrefixLen(input, "space", 1)))

\* token(c) / char(c).
token(c, input) ==
    IF input # <<>> /\ input[1] = c THEN Done(c, Tail(input)) ELSE Fail

\* The number of hexadecimal digits of the widest usize and u64 value.
UsizeHexDigits == 16
U64HexDigits == 16
U8Max == 255

\* An unsigned value wider than the checker's integers is kept as its
\* hexadecimal digits, most significant first, without leading zeros.
RECURSIVE StripZeros(_)
StripZeros(ds) == IF ds # <<>> /\ ds[1] = 0 THEN StripZeros(Tail(ds)) ELSE ds

\* uN::from_str_radix(s, 16) on a string of hex digits: the value, or the
\* overflow error when it does not fit maxDigits hexadecimal digits.
from_str_radix_wide(str, maxDigits) ==
    LET ds == StripZeros([i \in 1..Len(str) |-> HexVal(str[i])])
    IN  IF Len(ds) > maxDigits THEN [ok |-> FALSE, val |-> <<>>]
        ELSE [ok |-> TRUE, val |-> ds]

\* u8::from_str_radix(s, 16): digit by digit, with the overflow check.
RECURSIVE from_str_radix_u8(_, _)
from_str_radix_u8(str, acc) ==
    IF str = <<>> THEN [ok |-> TRUE, val |-> acc]
    ELSE LET next == acc * 16 + HexVal(str[1])
         IN  IF next > U8Max THEN [ok |-> FALSE, val |-> 0]
             ELSE from_str_radix_u8(Tail(str), next)

\* The value of Body at the value of e: e is evaluated once, as a sequence of
\* parsers hands each result to the next.
Bind(e, Body(_)) == CHOOSE out \in {Body(x) : x \in {e}} : TRUE

\* hex_digit1().and_then(usize::from_str_radix) and the u64 and u8 likes.
hex_usize(input) ==
    Bind(hex_digit1(input), LAMBDA d :
        IF ~d.ok THEN Fail
        ELSE Bind(from_str_radix_wide(d.val, UsizeHexDigits), LAMBDA v :
                 IF v.ok THEN Done(v.val, d.rest) ELSE Fail))

hex_u64(input) ==
    Bind(hex_digit1(input), LAMBDA d :
        IF ~d.ok THEN Fail
        ELSE Bind(from_str_radix_wide(d.val, U64HexDigits), LAMBDA v :
                 IF v.ok THEN Done(v.val, d.rest) ELSE Fail))

hex_u8(input) ==
    Bind(hex_digit1(input), LAMBDA d :
        IF ~d.ok THEN Fail
        ELSE Bind(from_str_radix_u8(d.val, 0), LAMBDA v :
                 IF v.ok THEN Done(v.val, d.rest) ELSE Fail))

address_range(input) ==
    Bind(hex_usize(input), LAMBDA start :
        IF ~start.ok \/ ~token("-", start.rest).ok THEN Fail
        ELSE Bind(hex_usize(Tail(start.rest)), LAMBDA end :
                 IF end.ok THEN Done([start |-> start.val, end |-> end.val], end.rest)
                 ELSE Fail))

\* A permission parser that grants the bit whichever character it reads.
permission_bit_always(yes, bit, input) ==
    IF token(yes, input).ok \/ token("-", input).ok THEN Done({bit}, Tail(input))
    ELSE Fail

\* or(char(yes).map(|_| bit), char('-').map(|_| empty)).
permission_bit(yes, bit, input) ==
    IF token(yes, input).ok THEN Done({bit}, Tail(input))
    ELSE IF token("-", input).ok THEN Done({}, Tail(input))
    ELSE Fail

share_flag(input) ==
    IF token("s", input).ok THEN Done("Shared", Tail(input))
    ELSE IF token("p", input).ok THEN Done("Private", Tail(input))
    ELSE Fail

permissions(input) ==
    Bind(permission_bit("r", "READ", input), LAMBDA r :
      IF ~r.ok THEN Fail ELSE
      Bind(permission_bit("w", "WRITE", r.rest), LAMBDA w :
        IF ~w.ok THEN Fail ELSE
        Bind(permission_bit("x", "EXECUTE", w.rest), LAMBDA x :
          IF ~x.ok THEN Fail ELSE
          Bind(share_flag(x.rest), LAMBDA sh :
            IF ~sh.ok THEN Fail
            ELSE Done([protection |-> r.val \cup w.val \cup x.val,
                       share_mode |-> sh.val], sh.rest)))))

device_id(input) ==
    Bind(hex_u8(input), LAMBDA major :
        IF ~major.ok \/ ~token(":", major.rest).ok THEN Fail
        ELSE Bind(hex_u8(Tail(major.rest)), LAMBDA minor :
                 IF minor.ok THEN Done(<<major.val, minor.val>>, minor.rest) ELSE Fail))

\* path: many1(satisfy(|c| c != '\n')).
path(input) ==
    LET n == PrefixLen(input, "path", 1)
    IN  IF n = 0 THEN Fail ELSE Done(SubSeq(input, 1, n), Drop(input, n))

\* optional(path()): None when path fails having consumed nothing.
optional_path(input) ==
    Bind(path(input), LAMBDA p :
        IF p.ok THEN Done(Some(p.val), p.rest) ELSE Done(None, input))

\* A share mode that is never refined.
refine_share_mode_never(share_mode, pth) == share_mode

\* The share mode of the record: a private region with a path is copy-on-write.
refine_share_mode(share_mode, pth) ==
    IF pth # None /\ share_mode = "Private" THEN "CopyOnWrite" ELSE share_mode

\* The record of a parsed line.
memory_area(range, perms, offset, pth) ==
    [range      |-> range,
     protection |-> perms.protection,
     share_mode |-> refine_share_mode(perms.share_mode, pth),
     path       |-> IF pth = None THEN None ELSE Some(<<pth[1], offset>>)]

\* memory_region: the fields of the line in order, with spaces() between
\* them, then the record built from them.
memory_region(input) ==
    Bind(address_range(input), LAMBDA range :
      IF ~range.ok THEN Fail ELSE
      Bind(permissions(spaces(range.rest).rest), LAMBDA perms :
        IF ~perms.ok THEN Fail ELSE
        Bind(hex_u64(spaces(perms.rest).rest), LAMBDA offset :
          IF ~offset.ok THEN Fail ELSE
          Bind(device_id(spaces(offset.rest).rest), LAMBDA dev :
            IF ~dev.ok THEN Fail ELSE
            Bind(hex_digit1(spaces(dev.rest).rest), LAMBDA inode :
              IF ~inode.ok THEN Fail ELSE
              Bind(optional_path(spaces(inode.rest).rest), LAMBDA pth :
                Done(memory_area(range.val, perms.val, offset.val, pth.val),
                     pth.rest)))))))

\* One entry of the listing as Lines yields it: a line, or an I/O error.
TextLine(text) == [io |-> "Ok", text |-> text]
IoError == [io |-> "Err", text |-> <<>>]

ItemOk(area) == [tag |-> "Ok", area |-> Some(area)]
ItemErr == [tag |-> "Err", area |-> None]

\* The Option<Item> next() makes of the line it read.
next_item(text) ==
    Bind(memory_region(text), LAMBDA parsed :
        IF parsed.ok THEN Some(ItemOk(parsed.val)) ELSE None)

\* MemoryAreas::next, called by a consumer that stops at the first None.
MemoryAreas_next ==
    /\ phase = "reader" /\ ~ended
    /\ lastOp' = "next"
    /\ IF lines = <<>>
       THEN /\ lastLine' = None
            /\ lastItem' = None
            /\ UNCHANGED lines
       ELSE /\ lines' = Tail(lines)
            /\ lastLine' = Some(lines[1])
            /\ lastItem' = IF lines[1].io = "Err" THEN Some(ItemErr)
                           ELSE next_item(lines[1].text)
    /\ yielded' = IF lastItem' = None THEN yielded ELSE Append(yielded, lastItem'[1])
    /\ ended' = (lastItem' = None)
    /\ UNCHANGED <<target, phase, opts, mmap, region, mem, arg, result, lastCalls, releases,
                   repeated, value>>
    /\ UNCHANGED <<listing, src>>

(***************************************************************************)
(* The lines the reader is run on.                                         *)
(***************************************************************************)
\* "7f1234560000-7f1234580000 r--p 00001000 08:01 123456 /lib/libc.so"
LibcLine ==
    <<"7", "f", "1", "2", "3", "4", "5", "6", "0", "0", "0", "0", "-", "7", "f", "1", "2",
      "3", "4", "5", "8", "0", "0", "0", "0", " ", "r", "-", "-", "p", " ", "0", "0", "0",
      "0", "1", "0", "0", "0", " ", "0", "8", ":", "0", "1", " ", "1", "2", "3", "4", "5",
      "6", " ", "/", "l", "i", "b", "/", "l", "i", "b", "c", ".", "s", "o">>

\* "00400000-00452000 rw-s 00000000 00:00 0": no path
AnonLine ==
    <<"0", "0", "4", "0", "0", "0", "0", "0", "-", "0", "0", "4", "5", "2", "0", "0", "0",
      " ", "r", "w", "-", "s", " ", "0", "0", "0", "0", "0", "0", "0", "0", " ", "0", "0",
      ":", "0", "0", " ", "0">>

\* "7f1234560000-7f1234580000": cut before the permissions
TruncatedLine ==
    <<"7", "f", "1", "2", "3", "4", "5", "6", "0", "0", "0", "0", "-", "7", "f", "1", "2",
      "3", "4", "5", "8", "0", "0", "0", "0">>

\* "7ffe0000-7ffe1000 rw-p 00000000 103:02 77 /data/x": a device major above 0xff
NvmeLine ==
    <<"7", "f", "f", "e", "0", "0", "0", "0", "-", "7", "f", "f", "e", "1", "0", "0", "0",
      " ", "r", "w", "-", "p", " ", "0", "0", "0", "0", "0", "0", "0", "0", " ", "1", "0",
      "3", ":", "0", "2", " ", "7", "7", " ", "/", "d", "a", "t", "a", "/", "x">>

ListingEntries ==
    {TextLine(LibcLine), TextLine(AnonLine), TextLine(TruncatedLine), TextLine(NvmeLine),
     IoError}

\* The fields a line is written from.
RangeTexts ==
    {<<"7", "f", "1", "2", "3", "4", "5", "6", "0", "0", "0", "0", "-", "7", "f", "1", "2", "3", "4", "5", "8", "0", "0", "0", "0">>,
     <<"0", "0", "4", "0", "0", "0", "0", "0", "-", "0", "0", "4", "5", "2", "0", "0", "0">>}
OffsetTexts == {<<"0", "0", "0", "0", "1", "0", "0", "0">>, <<"0", "0", "0", "0", "0", "0", "0", "0">>}
DeviceTexts == {<<"0", "8", ":", "0", "1">>, <<"1", "0", "3", ":", "0", "2">>}
InodeTexts  == {<<"1", "2", "3", "4", "5", "6">>}
PadTexts    == {<<" ">>, <<" ", " ", " ", " ">>}
PathTexts   ==
    {<<>>, <<"/", "l", "i", "b", "/", "l", "i", "b", "c", ".", "s", "o">>,
     <<"[", "h", "e", "a", "p", "]">>,
     <<"/", "t", "m", "p", "/", "a", " ", "b">>}

LineFields ==
    [range : RangeTexts, r : {"r", "-"}, w : {"w", "-"}, x : {"x", "-"}, s : {"s", "p"},
     offset : OffsetTexts, dev : DeviceTexts, inode : InodeTexts, pad : PadTexts,
     path : PathTexts]

\* The text of the line with fields f, as the kernel writes it.
Render(f) ==
    f.range \o <<" ", f.r, f.w, f.x, f.s, " ">> \o f.offset \o <<" ">> \o f.dev
        \o <<" ">> \o f.inode \o f.pad \o f.path

(***************************************************************************)
(* The specifications of the reader: over a listing of several entries,    *)
(* and over one line written from its fields.                              *)
(***************************************************************************)
MapIdle ==
    /\ target = "linux"
    /\ phase = "reader"
    /\ opts = None
    /\ mmap = None
    /\ region = None
    /\ mem = 0
    /\ lastOp = "open"
    /\ arg = None
    /\ result = "Unit"
    /\ lastCalls = <<>>
    /\ releases = 0
    /\ repeated = FALSE
    /\ value = None

Listings == UNION {[1..n -> ListingEntries] : n \in 0..MaxLines}

InitAreas ==
    /\ MapIdle
    /\ src = None
    /\ listing \in Listings
    /\ lines = listing
    /\ lastLine = None
    /\ lastItem = None
    /\ yielded = <<>>
    /\ ended = FALSE

InitLine ==
    /\ MapIdle
    /\ src \in {Some(f) : f \in LineFields}
    /\ listing = <<TextLine(Render(src[1]))>>
    /\ lines = listing
    /\ lastLine = None
    /\ lastItem = None
    /\ yielded = <<>>
    /\ ended = FALSE

NextAreas == MemoryAreas_next

SpecAreas == InitAreas /\ [][NextAreas]_vars
SpecLine  == InitLine /\ [][NextAreas]_vars

(***************************************************************************)
(* The specification of the POSIX flag translator: MmapOptions::flags      *)
(* applied to a builder with any backing source, safe flags, unsafe flags  *)
(* and page-size class, built for any POSIX target.                        *)
(***************************************************************************)
FlagTargets ==
    {"android", "dragonfly", "freebsd", "ios", "linux", "macos", "netbsd", "openbsd"}
MmapFlagNames ==
    {"COPY_ON_WRITE", "POPULATE", "NO_RESERVE", "HUGE_PAGES", "LOCKED", "STACK",
     "NO_CORE_DUMP"}
\* The size classes the translator names, and one it does not.
PageSizeClasses ==
    {"_64K", "_512K", "_1M", "_2M", "_8M", "_16M", "_32M", "_256M", "_512M", "_1G",
     "_2G", "_16G", "_other"}

FlagBuilders ==
    [address      : {None},
     file         : {None, Some(TheFile)},
     size         : {MaxSize},
     flags        : SUBSET MmapFlagNames,
     unsafe_flags : UnsafeFlagSets,
     page_size    : {None} \cup {Some(ps) : ps \in PageSizeClasses}]

InitFlags ==
    /\ target \in FlagTargets
    /\ phase = "translating"
    /\ opts \in FlagBuilders
    /\ mmap = None
    /\ region = None
    /\ mem = 0
    /\ lastOp = "new"
    /\ arg = None
    /\ result = {}
    /\ lastCalls = <<>>
    /\ releases = 0
    /\ repeated = FALSE
    /\ value = None
    /\ AreasIdle

\* One application of MmapOptions::flags to the builder; result is the
\* MapFlags it returns.
MmapOptions_flags ==
    /\ phase = "translating"
    /\ lastOp' = "flags"
    /\ result' = unix_flags(opts, target)
    /\ phase' = "translated"
    /\ UNCHANGED <<target, opts, mmap, region, mem, arg, lastCalls, releases, repeated,
                   value>>
    /\ UNCHANGED areaVars

NextFlags == MmapOptions_flags

SpecFlags == InitFlags /\ [][NextFlags]_vars

(***************************************************************************)
(* Properties of the builder and its Mapping.                              *)
(***************************************************************************)
UnsafeFlagNeeded == "UnsafeFlagNeeded(JIT)"
Creations   == {"map_none", "map", "map_exec", "map_mut", "map_exec_mut"}
ReleaseFns  == {"munmap", "UnmapViewOfFile", "VirtualFree"}
CallFns(calls) == {calls[i].fn : i \in 1..Len(calls)}

\* C1: a terminal creation call returns UnsafeFlagNeeded(JIT) exactly when it
\* is map_exec_mut on a builder whose unsafe flags lack JIT, and then no OS
\* call was issued and nothing is mapped.
C1_MapExecMutGate ==
    [][ (phase = "building" /\ phase' # "building") =>
          /\ lastOp' \in Creations
          /\ (result' = UnsafeFlagNeeded)
                <=> (lastOp' = "map_exec_mut" /\ "JIT" \notin opts.unsafe_flags)
          /\ (result' = UnsafeFlagNeeded)
                => (lastCalls' = <<>> /\ region' = None /\ mmap' = None) ]_vars

C1_Witness ==
    /\ lastOp = "map_exec_mut" /\ result = UnsafeFlagNeeded
    /\ lastCalls = <<>> /\ region = None

\* C2: on a live Mapping an operation returns UnsafeFlagNeeded(JIT) exactly
\* when it is make_exec_mut and the builder that created the Mapping had no
\* JIT flag; the Mapping's JIT flag is the builder's and never changes.
C2_MakeExecMutGate ==
    [][ /\ (phase = "building" /\ phase' = "live")
            => ("JIT" \in mmap'[1].flags <=> "JIT" \in opts.unsafe_flags)
        /\ (phase = "live")
            => /\ mmap'[1].flags = mmap[1].flags
               /\ (result' = UnsafeFlagNeeded)
                     <=> (lastOp' = "make_exec_mut" /\ "JIT" \notin mmap[1].flags) ]_vars

C2_Witness ==
    /\ phase = "live" /\ lastOp = "make_exec_mut" /\ result = UnsafeFlagNeeded
    /\ "JIT" \notin self.flags

\* C3: a live Mapping whose requested protection is writable and executable
\* was created with the JIT flag.
C3_WriteExecNeedsJit ==
    (phase = "live" /\ region # None
        /\ Writable(region[1].prot) /\ Executable(region[1].prot))
    => "JIT" \in self.flags

\* C4: after a successful make_read_only the protection requested for the
\* Mapping permits reading and forbids writing and executing.
C4_MakeReadOnly ==
    (phase = "live" /\ region # None /\ lastOp = "make_read_only" /\ result = "Ok")
    => /\ Readable(region[1].prot)
       /\ ~Writable(region[1].prot)
       /\ ~Executable(region[1].prot)

\* C5: flush_async on an empty or inverted range returns success, issues no
\* OS call and computes no wrapped or underflowing length.
C5_FlushAsyncEmptyRange ==
    (lastOp = "flush_async" /\ arg # None /\ arg[1].end <= arg[1].start)
    => (result = "Ok" /\ lastCalls = <<>>)

\* C7: a creation call that returns an error leaves no region mapped, and one
\* that returns a Mapping leaves its region mapped.
C7_CreationAtomic ==
    /\ (phase = "failed" => region = None)
    /\ (phase = "live" /\ lastOp \in Creations) => (region # None /\ result = "Ok")

\* C10: the Mapping's region stays mapped while the Mapping lives, no
\* operation but the destruction issues a release call, the destruction
\* issues exactly one (munmap; UnmapViewOfFile when file-backed, VirtualFree
\* when anonymous), and reports nothing to the caller even when it fails.
C10_ReleasedOnceAtDrop ==
    /\ (phase \in {"building", "failed"} => releases = 0)
    /\ (phase = "live"
          => /\ releases = 0
             /\ region # None /\ region[1].ptr = self.ptr
             /\ CallFns(lastCalls) \cap ReleaseFns = {})
    /\ (phase = "dropped"
          => /\ releases = 1
             /\ result = "Unit"
             /\ Len(lastCalls) = 1
             /\ lastCalls[1].ptr = self.ptr
             /\ lastCalls[1].fn = (IF ~IsWindows THEN "munmap"
                                   ELSE IF self.file # None THEN "UnmapViewOfFile"
                                   ELSE "VirtualFree"))

C10_Witness ==
    /\ phase = "dropped" /\ releases = 1 /\ result = "Unit"
    /\ region # None

\* The transition op, on either backend.
MakeAction(op) ==
    CASE op = "make_none"      -> unix_make_none \/ windows_make_none
      [] op = "make_read_only" -> unix_make_read_only \/ windows_make_read_only
      [] op = "make_exec"      -> unix_make_exec \/ windows_make_exec
      [] op = "make_mut"       -> unix_make_mut \/ windows_make_mut
      [] op = "make_exec_mut"  -> unix_make_exec_mut \/ windows_make_exec_mut

\* The errors the OS calls of a backend are reported as.
OsErrors == IF IsWindows THEN {"Io"} ELSE {"Nix"}

\* C12: after a transition succeeded, the same transition can be called
\* again and succeed; a repeated call issues the one OS call the first call
\* issued, returns success or the OS error and nothing else, and leaves the
\* protection of the region as the first call left it.
C12_TransitionIdempotent ==
    /\ []((phase = "live" /\ lastOp \in Transitions /\ result = "Ok")
            => ENABLED (MakeAction(lastOp) /\ result' = "Ok" /\ region' = region))
    /\ [][ repeated'
            => /\ Len(lastCalls') = 1
               /\ lastCalls' = lastCalls
               /\ result' \in {"Ok"} \cup OsErrors
               /\ region' = region ]_vars

C12_Witness ==
    /\ phase = "live" /\ repeated /\ lastOp = "make_exec_mut" /\ result = "Ok"
    /\ "JIT" \in self.flags
    /\ Writable(region[1].prot) /\ Executable(region[1].prot)

\* The protection a Windows creation call asks for.
RequestedProtection(op, cow) ==
    CASE op = "map_none"     -> PAGE_NOACCESS
      [] op = "map"          -> PAGE_READONLY
      [] op = "map_exec"     -> PAGE_EXECUTE_READ
      [] op = "map_mut"      -> IF cow THEN PAGE_WRITECOPY ELSE PAGE_READWRITE
      [] op = "map_exec_mut" -> IF cow THEN PAGE_EXECUTE_WRITECOPY ELSE PAGE_EXECUTE_READWRITE

\* The positions in calls of the calls to fn that are, or are not, probes.
ProbeCalls(calls, fn) ==
    {i \in 1..Len(calls) : calls[i].fn = fn /\ "probe" \in calls[i].flags}
CommitCalls(calls, fn) ==
    {i \in 1..Len(calls) : calls[i].fn = fn /\ "probe" \notin calls[i].flags}

\* The OS calls of a file-backed creation follow the probe-then-commit protocol.
ProbeThenCommit(calls, requested) ==
    LET probes  == ProbeCalls(calls, "CreateFileMappingW")
        closes  == ProbeCalls(calls, "CloseHandle")
        commits == CommitCalls(calls, "CreateFileMappingW")
        views   == CommitCalls(calls, "MapViewOfFileEx")
        applies == CommitCalls(calls, "VirtualProtect")
        created(i) == "invalid" \notin calls[i].flags
    IN  /\ Cardinality(probes) = 2 /\ Cardinality(commits) = 1
        /\ Cardinality(views) = 1 /\ Cardinality(applies) = 1
        /\ LET w == CHOOSE i \in probes : \A j \in probes : i <= j
               x == CHOOSE i \in probes : \A j \in probes : j <= i
               k == CHOOSE i \in commits : TRUE
               v == CHOOSE i \in views : TRUE
               a == CHOOSE i \in applies : TRUE
           IN  \* the probes: read-write, then read-exec, both before the commit
               /\ calls[w].prot = PAGE_READWRITE /\ calls[x].prot = PAGE_EXECUTE_READ
               /\ w < x /\ x < k
               \* a probe object that was created is closed at once, no other is
               /\ \A i \in probes : created(i) <=> (i + 1) \in closes
               /\ \A c \in closes : (c - 1) \in probes /\ c < k
               \* the committed object and its view: read, and what the probes found
               /\ Readable(calls[k].prot)
               /\ Writable(calls[k].prot) <=> created(w)
               /\ Executable(calls[k].prot) <=> created(x)
               /\ v = k + 1
               /\ "FILE_MAP_READ" \in calls[v].flags
               /\ ("FILE_MAP_WRITE" \in calls[v].flags) <=> created(w)
               /\ ("FILE_MAP_EXECUTE" \in calls[v].flags) <=> created(x)
               \* the requested protection is applied to the view afterwards
               /\ v < a /\ a = Len(calls)
               /\ calls[a].prot = requested

\* C13: a Windows creation call on a builder with a file runs both probes,
\* closes every probe object it created, then creates the real file-mapping
\* object and its view with read plus the rights the probes found, and
\* applies the requested protection to the view last; on a builder without
\* a file the probes answer false and the only OS call is VirtualAlloc.
C13_ProbeThenCommit ==
    [][ (IsWindows /\ phase = "building" /\ phase' # "building"
            /\ result' # UnsafeFlagNeeded)
        => IF opts.file # None
           THEN ProbeThenCommit(lastCalls',
                                RequestedProtection(lastOp', "COPY_ON_WRITE" \in opts.flags))
           ELSE /\ \A p \in PageProtections, ok \in BOOLEAN :
                      windows_check_protection(opts, p, ok) = [res |-> FALSE, calls |-> <<>>]
                /\ CallFns(lastCalls') = {"VirtualAlloc"} ]_vars

C13_Witness ==
    /\ IsWindows /\ phase = "live" /\ lastOp = "map" /\ result = "Ok"
    /\ self.file # None
    /\ Len(lastCalls) = 7
    /\ lastCalls[2].fn = "CloseHandle" /\ "probe" \in lastCalls[2].flags
    /\ "invalid" \in lastCalls[3].flags
    /\ lastCalls[4].prot = PAGE_READWRITE
    /\ lastCalls[7].fn = "VirtualProtect" /\ lastCalls[7].prot = PAGE_READONLY

\* The operations of a live Mapping.
LiveOps ==
    Transitions \cup {"lock", "unlock", "flush", "flush_async", "flush_icache",
                      "file", "as_ptr", "as_mut_ptr", "size", "do_make", "store", "load"}

\* C15: the Mapping a creation call returns has the requested size, a file
\* exactly when the builder had one, the JIT flag exactly when the builder's
\* unsafe flags had it (and on Windows the copy-on-write flag exactly when
\* the builder's flags had it) and the address of the mapped region; every
\* operation on the live Mapping, whatever it returns, leaves all of them
\* as they were.
C15_MappingFieldsFixed ==
    [][ /\ (phase = "building" /\ phase' = "live")
            => /\ mmap'[1].size = opts.size
               /\ (mmap'[1].file # None) <=> (opts.file # None)
               /\ ("JIT" \in mmap'[1].flags) <=> ("JIT" \in opts.unsafe_flags)
               /\ IsWindows => (("COPY_ON_WRITE" \in mmap'[1].flags)
                                   <=> ("COPY_ON_WRITE" \in opts.flags))
               /\ mmap'[1].ptr = region'[1].ptr
        /\ (phase = "live" /\ phase' = "live")
            => /\ lastOp' \in LiveOps
               /\ mmap'[1].ptr = mmap[1].ptr
               /\ mmap'[1].size = mmap[1].size
               /\ mmap'[1].file = mmap[1].file
               /\ mmap'[1].flags = mmap[1].flags ]_vars

C15_Witness ==
    /\ phase = "live" /\ lastOp = "make_mut" /\ result \in OsErrors
    /\ self.file # None /\ self.size = MaxSize
    /\ "JIT" \in self.flags
    /\ IsWindows /\ "COPY_ON_WRITE" \in self.flags

(***************************************************************************)
(* Properties of the POSIX flag translator.                                *)
(***************************************************************************)
\* C11: the translator returns for every builder (it is total), and the
\* flags it returns have the anonymous flag exactly when the builder has no
\* backing file, the private flag exactly when COPY_ON_WRITE is a safe flag,
\* the shared flag exactly when it is not, and the fixed-address flag exactly
\* when MAP_FIXED is an unsafe flag.
C11_FlagTranslation ==
    /\ (phase = "translating") => ENABLED MmapOptions_flags
    /\ (phase = "translated")
          => /\ ("MAP_ANONYMOUS" \in result) <=> (opts.file = None)
             /\ ("MAP_PRIVATE" \in result) <=> ("COPY_ON_WRITE" \in opts.flags)
             /\ ("MAP_SHARED" \in result) <=> ("COPY_ON_WRITE" \notin opts.flags)
             /\ ("MAP_FIXED" \in result) <=> ("MAP_FIXED" \in opts.unsafe_flags)

C11_Witness ==
    /\ phase = "translated" /\ lastOp = "flags"
    /\ opts.file # None /\ opts.page_size = Some("_16G")
    /\ "COPY_ON_WRITE" \in opts.flags /\ "MAP_FIXED" \in opts.unsafe_flags
    /\ {"MAP_PRIVATE", "MAP_FIXED"} \subseteq result
    /\ "MAP_ANONYMOUS" \notin result /\ "MAP_SHARED" \notin result

(***************************************************************************)
(* Properties of the memory-map reader.                                    *)
(***************************************************************************)
\* The entries of a listing that are well-formed lines, and the one that is
\* structurally malformed.
WellFormedEntries == {TextLine(LibcLine), TextLine(AnonLine)}
MalformedEntries  == {TextLine(TruncatedLine)}

RECURSIVE RecordsOf(_)
RecordsOf(entries) ==
    IF entries = <<>> THEN <<>>
    ELSE IF entries[1] \in WellFormedEntries
    THEN <<ItemOk(memory_region(entries[1].text).val)>> \o RecordsOf(Tail(entries))
    ELSE RecordsOf(Tail(entries))

\* C6: over a listing of well-formed and structurally malformed lines that
\* ends with a well-formed one, the consumer sees the end of the sequence
\* only when the listing is exhausted, and has then received the record of
\* every well-formed line, in order.
C6_MalformedLineSkipped ==
    (/\ ended
     /\ listing # <<>> /\ listing[Len(listing)] \in WellFormedEntries
     /\ \A i \in 1..Len(listing) : listing[i] \in WellFormedEntries \cup MalformedEntries)
    => (lines = <<>> /\ yielded = RecordsOf(listing))

\* The record the libc line stands for, with the given share mode.
LibcRecord(share_mode) ==
    [range      |-> [start |-> <<7, 15, 1, 2, 3, 4, 5, 6, 0, 0, 0, 0>>,
                     end   |-> <<7, 15, 1, 2, 3, 4, 5, 8, 0, 0, 0, 0>>],
     protection |-> {"READ"},
     share_mode |-> share_mode,
     path       |-> Some(<<<<"/", "l", "i", "b", "/", "l", "i", "b", "c", ".", "s", "o">>,
                           <<1, 0, 0, 0>> >>)]

\* C8 as stated: the libc line yields the record with range
\* [0x7f1234560000, 0x7f1234580000), protection read only, share mode
\* private, path "/lib/libc.so" and offset 0x1000.
C8_LibcLinePrivate ==
    (lastLine = Some(TextLine(LibcLine)))
    => (lastItem = Some(ItemOk(LibcRecord("Private"))))

\* C8 as amended: the libc line yields that record with share mode
\* copy-on-write.
C8_LibcLineCopyOnWrite ==
    (lastLine = Some(TextLine(LibcLine)))
    => (lastItem = Some(ItemOk(LibcRecord("CopyOnWrite"))))

C8_Witness ==
    /\ lastLine = Some(TextLine(LibcLine))
    /\ lastItem # None /\ lastItem[1].tag = "Ok"

\* C9: the record of a line written from fields f is copy-on-write exactly
\* when f has a path and the share flag 'p', private when the flag is 'p'
\* and there is no path, shared when the flag is 's'; it carries (path,
\* offset) exactly when f has a path.
C9_ShareModeRefinement ==
    (src # None /\ lastLine # None /\ lastItem # None)
    => LET f   == src[1]
           rec == lastItem[1].area[1]
       IN  /\ (rec.share_mode = "CopyOnWrite") <=> (f.path # <<>> /\ f.s = "p")
           /\ (f.s = "p" /\ f.path = <<>>) => rec.share_mode = "Private"
           /\ (f.s = "s") => rec.share_mode = "Shared"
           /\ (rec.path # None) <=> (f.path # <<>>)
           /\ (rec.path # None)
                 => /\ rec.path[1][1] = f.path
                    /\ rec.path[1][2] = StripZeros([i \in 1..Len(f.offset) |-> HexVal(f.offset[i])])

C9_Witness ==
    /\ src # None /\ lastLine # None /\ lastItem # None
    /\ src[1].s = "p" /\ src[1].path # <<>>
    /\ lastItem[1].area[1].share_mode = "CopyOnWrite"

\* The value of a text of hexadecimal digits.
HexValueOf(text) == StripZeros([i \in 1..Len(text) |-> HexVal(text[i])])

\* C14: a line written from fields f, whatever its device numbers and with
\* or without a path, yields Ok(record), whose range is the two addresses
\* of f and whose offset (kept with the path) is the offset of f, decoded
\* from hexadecimal.
C14_GrammarLineYieldsRecord ==
    (src # None /\ lastLine # None)
    => /\ lastItem # None /\ lastItem[1].tag = "Ok"
       /\ LET f    == src[1]
              rec  == lastItem[1].area[1]
              dash == CHOOSE i \in 1..Len(f.range) : f.range[i] = "-"
          IN  /\ rec.range.start = HexValueOf(SubSeq(f.range, 1, dash - 1))
              /\ rec.range.end = HexValueOf(SubSeq(f.range, dash + 1, Len(f.range)))
              /\ (f.path # <<>>) => rec.path[1][2] = HexValueOf(f.offset)

====
